---- MODULE Spec2Model ----
(***************************************************************************)
(* Excavation job management: the HTTP handlers of server/routes.ts, the   *)
(* zod schemas of shared/schema.ts and the DbStorage repository, over the  *)
(* two PostgreSQL tables `jobs` and `estimates`.                           *)
(*                                                                         *)
(* Numbers are fixed-point integers: pipeLength, trenchWidth, trenchDepth, *)
(* materialWeight and estimatedHours in whole units, cubicYards and       *)
(* importUnitCost in hundredths.  A JSON string sent for a numeric field  *)
(* is a sequence of one-character strings, so that parseFloat is computed. *)
(* Text columns are TLA+ strings, with NULL for SQL/JSON null.             *)
(***************************************************************************)
EXTENDS Integers, Sequences, FiniteSets, TLC

\* ---- bounds of the model ----
MaxJobs == 2
MaxEstimates == 2
MaxInflight == 2
MaxRequests == 4

\* ---- program constants ----
DefaultMaterialWeight == 145
DefaultImportUnitCost == 2450
DefaultEstimatedHours == 0
CubicFeetPerCubicYard == 27

NULL == "<null>"
JobStatus == {"pending", "in-progress", "completed"}
DefaultStatus == "pending"

VARIABLES
    jobs,            \* table jobs: id -> row
    estimates,       \* table estimates: id -> row
    nextJobId,       \* serial sequence of jobs.id
    nextEstimateId,  \* serial sequence of estimates.id
    putEst,          \* PUT /api/estimates/:id requests between getEstimate and updateEstimate
    delJob,          \* DELETE /api/jobs/:id requests between the two delete statements
    issued,          \* number of requests received so far
    last,            \* the response sent most recently
    gone,            \* jobs whose DELETE was answered 204: id -> ids of the estimates
                     \* the job had when the request arrived
    calc,            \* what a calculator component was last rendered with, and its figures
    form,            \* the estimate form's last submission: values, preview, body sent
    cache,           \* the browser's query cache: query key -> data and staleness
    page             \* the browser page: URL, Header, Home and EstimatesList state

serverVars == <<jobs, estimates, nextJobId, nextEstimateId, putEst, delJob, issued, last, gone>>
clientVars == <<calc, form, cache, page>>
vars == <<jobs, estimates, nextJobId, nextEstimateId, putEst, delJob, issued, last, gone,
          calc, form, cache, page>>

\* ---- JSON values of numeric body fields ----
Num(n) == [t |-> "number", n |-> n, s |-> <<>>]
Str(s) == [t |-> "string", n |-> 0, s |-> s]

Has(b, f) == f \in DOMAIN b
Restrict(b, fs) == [f \in (DOMAIN b) \cap fs |-> b[f]]
Without(tbl, ids) == [i \in (DOMAIN tbl) \ ids |-> tbl[i]]

\* ---- parseFloat over signed decimal integers ----
Digits == <<"0", "1", "2", "3", "4", "5", "6", "7", "8", "9">>
IsDigit(c) == \E d \in 1..10 : Digits[d] = c
DigitVal(c) == (CHOOSE d \in 1..10 : Digits[d] = c) - 1

RECURSIVE DigitRun(_, _, _)
\* value of the longest prefix of digits of s from position i, acc so far
DigitRun(s, i, acc) ==
    IF i > Len(s) \/ ~IsDigit(s[i]) THEN acc
    ELSE DigitRun(s, i + 1, acc * 10 + DigitVal(s[i]))

parseFloat(s) ==
    LET signed == Len(s) > 0 /\ s[1] \in {"-", "+"}
        first  == IF signed THEN 2 ELSE 1
    IN  IF first > Len(s) \/ ~IsDigit(s[first])
        THEN [isNaN |-> TRUE, v |-> 0]
        ELSE [isNaN |-> FALSE,
              v |-> IF signed /\ s[1] = "-" THEN 0 - DigitRun(s, first, 0)
                    ELSE DigitRun(s, first, 0)]

\* parseInt of the same texts: no fraction or exponent occurs in them
parseInt(s) == parseFloat(s)

\* parseFloat(val) || d
ParseOr(s, d) ==
    LET p == parseFloat(s) IN IF p.isNaN \/ p.v = 0 THEN d ELSE p.v

\* ---- calculateCubicYards: Number((l*w*d / 27).toFixed(2)), in hundredths ----
Round2(num, den) == (2 * 100 * num + den) \div (2 * den)

calculateCubicYardsTruncated(pipeLength, trenchWidth, trenchDepth) ==
    LET cubicFeet == pipeLength * trenchWidth * trenchDepth
    IN  (100 * cubicFeet) \div CubicFeetPerCubicYard

calculateCubicYards(pipeLength, trenchWidth, trenchDepth) ==
    LET cubicFeet == pipeLength * trenchWidth * trenchDepth
    IN  Round2(cubicFeet, CubicFeetPerCubicYard)


\* ---- zod schemas (shared/schema.ts) ----
JobFields == {"name", "location", "client", "startDate", "status", "notes"}
JobRequired == {"name", "location", "client"}
JobNullable == {"startDate", "notes"}

\* insertJobSchema.safeParse(body).success; partial = insertJobSchema.partial()
insertJobSchemaOk(b, partial) ==
    /\ partial \/ JobRequired \subseteq DOMAIN b
    /\ \A f \in (DOMAIN b) \cap JobFields : b[f] = NULL => f \in JobNullable

\* parseResult.data: zod strips the keys the schema does not know
insertJobSchemaData(b) == Restrict(b, JobFields)

EstimateFields == {"jobId", "description", "pipeLength", "trenchWidth", "trenchDepth",
                   "cubicYards", "materialWeight", "importUnitCost", "estimatedHours",
                   "createdAt", "notes"}
EstimateRequired == {"jobId", "pipeLength", "trenchWidth", "trenchDepth", "cubicYards",
                     "materialWeight", "importUnitCost", "estimatedHours"}
EstimateText == {"description", "notes"}
Dimensions == {"pipeLength", "trenchWidth", "trenchDepth"}

\* z.number().nonnegative(...) written for .positive(...)
NonNegativeForPositive(x) == x.t = "number" /\ x.n >= 0

\* z.number().positive(...)
PositiveNumber(x) == x.t = "number" /\ x.n > 0
\* z.number().min(0, ...)
NonNegativeNumber(x) == x.t = "number" /\ x.n >= 0
\* z.union([z.number().positive(...), z.string().transform(...)])
PositiveOrString(x) == PositiveNumber(x) \/ x.t = "string"
\* z.union([z.number().min(0, ...), z.string().transform(...)])
NonNegativeOrString(x) == NonNegativeNumber(x) \/ x.t = "string"

EstimateFieldOk(f, x) ==
    CASE f \in Dimensions -> PositiveNumber(x)
      [] f \in {"jobId", "cubicYards"} -> x.t = "number"
      [] f \in {"materialWeight", "importUnitCost"} -> PositiveOrString(x)
      [] f = "estimatedHours" -> NonNegativeOrString(x)
      [] f = "createdAt" -> x = NULL
      [] OTHER -> TRUE

\* estimateValidationSchema.safeParse(body).success; partial = .partial()
estimateValidationSchemaOk(b, partial) ==
    /\ partial \/ EstimateRequired \subseteq DOMAIN b
    /\ \A f \in (DOMAIN b) \cap EstimateFields : EstimateFieldOk(f, b[f])

\* the value zod hands on for a field: the number, or the transform of the string
EstimateFieldData(f, x) ==
    CASE f \in EstimateText \cup {"createdAt"} -> x
      [] f = "materialWeight" /\ x.t = "string" -> ParseOr(x.s, DefaultMaterialWeight)
      [] f = "importUnitCost" /\ x.t = "string" -> ParseOr(x.s, DefaultImportUnitCost)
      [] f = "estimatedHours" /\ x.t = "string" -> ParseOr(x.s, DefaultEstimatedHours)
      [] OTHER -> x.n

estimateValidationSchemaData(b) ==
    [f \in (DOMAIN b) \cap EstimateFields |-> EstimateFieldData(f, b[f])]


\* ---- DbStorage (server/storage.ts) over the tables of shared/schema.ts ----
\* x || null on a text value: undefined, null and "" all become null
OrNull(d, f) == IF Has(d, f) /\ d[f] # NULL /\ d[f] # "" THEN d[f] ELSE NULL

\* the row createJob would insert with status: insertJob.status || null
createJobRowNoDefault(id, insertJob) ==
    [id        |-> id,
     name      |-> insertJob.name,
     location  |-> insertJob.location,
     client    |-> insertJob.client,
     startDate |-> OrNull(insertJob, "startDate"),
     status    |-> OrNull(insertJob, "status"),
     notes     |-> OrNull(insertJob, "notes")]

\* the row createJob inserts
createJobRow(id, insertJob) ==
    [id        |-> id,
     name      |-> insertJob.name,
     location  |-> insertJob.location,
     client    |-> insertJob.client,
     startDate |-> OrNull(insertJob, "startDate"),
     status    |-> IF OrNull(insertJob, "status") = NULL THEN DefaultStatus
                   ELSE insertJob.status,
     notes     |-> OrNull(insertJob, "notes")]

\* UPDATE ... SET validData: the columns present in updateData are overwritten
SetColumns(row, updateData, columns) ==
    [c \in DOMAIN row |-> IF c \in columns /\ Has(updateData, c) THEN updateData[c]
                          ELSE row[c]]

\* UPDATE that writes every column, absent ones with their insert defaults
updateJobRowWholeRow(row, updateData) ==
    [c \in DOMAIN row |-> IF c = "id" THEN row.id
                          ELSE IF Has(updateData, c) THEN updateData[c]
                          ELSE IF c = "status" THEN DefaultStatus
                          ELSE NULL]

updateJobRow(row, updateData) == SetColumns(row, updateData, JobFields)

\* the row createEstimate inserts; now is the server clock
createEstimateRow(id, insertEstimate, now) ==
    [id             |-> id,
     jobId          |-> insertEstimate.jobId,
     description    |-> OrNull(insertEstimate, "description"),
     pipeLength     |-> insertEstimate.pipeLength,
     trenchWidth    |-> insertEstimate.trenchWidth,
     trenchDepth    |-> insertEstimate.trenchDepth,
     cubicYards     |-> insertEstimate.cubicYards,
     materialWeight |-> insertEstimate.materialWeight,
     importUnitCost |-> insertEstimate.importUnitCost,
     estimatedHours |-> IF insertEstimate.estimatedHours = 0 THEN DefaultEstimatedHours
                        ELSE insertEstimate.estimatedHours,
     notes          |-> OrNull(insertEstimate, "notes"),
     createdAt      |-> now]

\* updateEstimate copies every column but id and createdAt
\* updateEstimate copying createdAt like the other columns (0: the null timestamp)
updateEstimateRowCopiesCreatedAt(row, updateData) ==
    [SetColumns(row, updateData, EstimateFields \ {"createdAt"})
       EXCEPT !.createdAt = IF Has(updateData, "createdAt") THEN 0 ELSE @]

updateEstimateRow(row, updateData) ==
    SetColumns(row, updateData, EstimateFields \ {"createdAt"})

\* the column declared without .references(() => jobs.id)
NoForeignKey(jobId, jobTable) == TRUE

\* estimates.jobId references jobs.id: an estimate row may name only a stored job
ForeignKeyHolds(jobId, jobTable) == jobId \in DOMAIN jobTable

\* ids of the estimates of one job: WHERE estimates.jobId = id
EstimatesOfJob(id, estimateTable) ==
    {e \in DOMAIN estimateTable : estimateTable[e].jobId = id}

\* the job row deleted whatever still references it
NoReferenceCheck(id, estimateTable) == TRUE

\* jobs.id is referenced by no estimate: the job row may be deleted
Unreferenced(id, estimateTable) == EstimatesOfJob(id, estimateTable) = {}


\* ---- requests the clients send ----
JobIdInputs == 1..MaxJobs
EstimateIdInputs == 1..MaxEstimates

JobBase == [name |-> "Main St sewer", location |-> "Dallas", client |-> "Acme"]

JobBodies ==
    { JobBase,
      JobBase @@ [id |-> "9", status |-> "in-progress"],
      JobBase @@ [status |-> "urgent"],
      [location |-> "Dallas", client |-> "Acme"],
      [JobBase EXCEPT !.name = ""] @@ [notes |-> ""] }

JobPatches ==
    { [id |-> "9", status |-> "completed"],
      [status |-> "urgent"],
      [name |-> NULL],
      <<>> }

EstimateBase(j) ==
    [jobId |-> Num(j), pipeLength |-> Num(3), trenchWidth |-> Num(3),
     trenchDepth |-> Num(3), cubicYards |-> Num(999), materialWeight |-> Num(145),
     importUnitCost |-> Num(2450), estimatedHours |-> Num(0)]

EstimateBodies ==
    { EstimateBase(1), EstimateBase(2),
      [EstimateBase(1) EXCEPT !.materialWeight = Str(<<"-", "5">>),
                              !.importUnitCost = Str(<<"-", "5">>),
                              !.estimatedHours = Str(<<"-", "3">>)],
      [EstimateBase(1) EXCEPT !.materialWeight = Str(<<"a", "b", "c">>),
                              !.importUnitCost = Str(<<"0">>),
                              !.estimatedHours = Str(<<"8">>)]
        @@ [id |-> Num(9), createdAt |-> NULL],
      [EstimateBase(1) EXCEPT !.pipeLength = Num(0)],
      [EstimateBase(1) EXCEPT !.materialWeight = Num(-5)],
      [f \in EstimateRequired \ {"trenchWidth"} |-> EstimateBase(1)[f]],
      [f \in EstimateRequired \ {"cubicYards"} |-> EstimateBase(1)[f]],
      [f \in {"jobId", "cubicYards"} \cup Dimensions |-> EstimateBase(1)[f]] }

EstimatePatches ==
    { [pipeLength |-> Num(6)],
      [trenchWidth |-> Num(9)],
      [trenchDepth |-> Num(0)],
      [id |-> Num(9), createdAt |-> NULL, notes |-> "rock", cubicYards |-> Num(999)],
      [jobId |-> Num(2), materialWeight |-> Str(<<"-", "5">>),
       estimatedHours |-> Str(<<"-", "3">>)] }

\* the jobId parameter of GET /api/estimates: absent, or its text
NoQuery == [given |-> FALSE, v |-> <<>>]
Query(v) == [given |-> TRUE, v |-> v]
JobIdQueries == {NoQuery, Query(<<"0">>), Query(<<"1">>)}

\* ---- the server ----
NoBody == <<>>
\* a response: body is the request's body (the rows returned, for a GET),
\* entity the row sent back by a create or an update, error what a 500 logs
Response(op, id, body, code) ==
    [op |-> op, id |-> id, body |-> body, code |-> code, entity |-> {}, error |-> ""]

\* res.status(code).end() written for res.status(code).json(row)
SendsNoEntity(r, row) == r

\* res.status(code).json(row)
WithEntity(r, row) == [r EXCEPT !.entity = {row}]

\* the catch block: console.error(..., error), res.status(500)
Unavailable == "backend unavailable"
ConstraintViolated == "foreign key violated"
NoValuesToSet == "No values to set"
ServerError(op, id, body, error) == [Response(op, id, body, 500) EXCEPT !.error = error]

\* the browser before anything was rendered, submitted, fetched or loaded
NoFigures == [fn |-> "none", in |-> <<>>, out |-> <<>>]
NoSubmission == [values |-> <<>>, preview |-> 0, sent |-> <<>>, id |-> 0]
EmptyCache == <<>>
\* ids are 0 where the page has null (or "all" in the job filter)
NoEvent == [name |-> "none", arg |-> 0]
NoRequest == [method |-> "none", id |-> 0]
NotLoaded ==
    [ loaded |-> FALSE, url |-> "",
      \* Header
      header |-> "jobs",
      \* Home
      activeTab |-> "jobs", openAddEstimateModal |-> FALSE, homeSelectedJobId |-> 0,
      \* EstimatesList, while Home renders it
      mounted |-> FALSE, isAddEstimateOpen |-> FALSE, selectedJobId |-> 0,
      estimateToEdit |-> 0,
      \* pending setTimeout(resetModalState, 100)
      timers |-> 0,
      \* what opened the dialog last, the last event handled, the last request
      \* the estimate form issued
      openedBy |-> "none", event |-> NoEvent, request |-> NoRequest ]

Init ==
    /\ calc = NoFigures
    /\ form = NoSubmission
    /\ cache = EmptyCache
    /\ page = NotLoaded
    /\ jobs = <<>>
    /\ estimates = <<>>
    /\ nextJobId = 1
    /\ nextEstimateId = 1
    /\ putEst = {}
    /\ delJob = {}
    /\ issued = 0
    /\ last = Response("none", 0, NoBody, 0)
    /\ gone = <<>>

InFlight == Cardinality(putEst) + Cardinality(delJob)

\* the request slot (connection) a newly accepted request is served on
Busy == {p.slot : p \in putEst} \cup {d.slot : d \in delJob}
FreeSlot == CHOOSE k \in 1..(InFlight + 1) : k \notin Busy /\ \A m \in 1..(k - 1) : m \in Busy

\* a request is accepted while fewer than lim requests are being served
Accept(lim) ==
    /\ InFlight < lim
    /\ issued < MaxRequests
    /\ issued' = issued + 1


\* GET /api/jobs
GetJobs(lim) ==
    /\ Accept(lim)
    /\ \E ok \in BOOLEAN :
         last' = IF ok THEN Response("GET /api/jobs", 0, {jobs[j] : j \in DOMAIN jobs}, 200)
                 ELSE ServerError("GET /api/jobs", 0, NoBody, Unavailable)
    /\ UNCHANGED <<jobs, estimates, nextJobId, nextEstimateId, putEst, delJob, gone>>

\* GET /api/jobs/:id
GetJob(lim, id) ==
    /\ Accept(lim)
    /\ \E ok \in BOOLEAN :
         last' = IF ~ok THEN ServerError("GET /api/jobs/:id", id, NoBody, Unavailable)
                 ELSE IF id \notin DOMAIN jobs
                      THEN Response("GET /api/jobs/:id", id, NoBody, 404)
                      ELSE Response("GET /api/jobs/:id", id, {jobs[id]}, 200)
    /\ UNCHANGED <<jobs, estimates, nextJobId, nextEstimateId, putEst, delJob, gone>>

\* POST /api/jobs
PostJob(lim, body) ==
    /\ Accept(lim)
    /\ IF ~insertJobSchemaOk(body, FALSE)
       THEN /\ last' = Response("POST /api/jobs", 0, body, 400)
            /\ UNCHANGED <<jobs, nextJobId>>
       ELSE \E ok \in BOOLEAN :
              IF ok
              THEN /\ nextJobId <= MaxJobs
                   /\ jobs' = jobs @@ (nextJobId :> createJobRow(nextJobId, insertJobSchemaData(body)))
                   /\ nextJobId' = nextJobId + 1
                   /\ last' = WithEntity(Response("POST /api/jobs", nextJobId, body, 201),
                                         jobs'[nextJobId])
              ELSE /\ last' = ServerError("POST /api/jobs", 0, body, Unavailable)
                   /\ UNCHANGED <<jobs, nextJobId>>
    /\ UNCHANGED <<estimates, nextEstimateId, putEst, delJob, gone>>

\* PUT /api/jobs/:id with the body checked only after storage.updateJob ran
PutJobWriteFirst(lim, id, body) ==
    /\ Accept(lim)
    /\ jobs' = IF id \in DOMAIN jobs
               THEN [jobs EXCEPT ![id] = updateJobRow(@, insertJobSchemaData(body))]
               ELSE jobs
    /\ last' = Response("PUT /api/jobs/:id", id, body,
                        IF ~insertJobSchemaOk(body, TRUE) THEN 400
                        ELSE IF id \in DOMAIN jobs THEN 200 ELSE 404)
    /\ UNCHANGED <<estimates, nextJobId, nextEstimateId, putEst, delJob, gone>>

\* PUT /api/jobs/:id
PutJob(lim, id, body) ==
    /\ Accept(lim)
    /\ IF ~insertJobSchemaOk(body, TRUE)
       THEN /\ last' = Response("PUT /api/jobs/:id", id, body, 400)
            /\ UNCHANGED jobs
       ELSE \E ok \in BOOLEAN :
              IF DOMAIN insertJobSchemaData(body) = {}
              THEN \* .set({}) throws before any statement is sent
                   /\ last' = ServerError("PUT /api/jobs/:id", id, body, NoValuesToSet)
                   /\ UNCHANGED jobs
              ELSE IF ~ok
              THEN /\ last' = ServerError("PUT /api/jobs/:id", id, body, Unavailable)
                   /\ UNCHANGED jobs
              ELSE IF id \notin DOMAIN jobs
                   THEN /\ last' = Response("PUT /api/jobs/:id", id, body, 404)
                        /\ UNCHANGED jobs
                   ELSE /\ jobs' = [jobs EXCEPT ![id] = updateJobRow(@, insertJobSchemaData(body))]
                        /\ last' = WithEntity(Response("PUT /api/jobs/:id", id, body, 200),
                                              jobs'[id])
    /\ UNCHANGED <<estimates, nextJobId, nextEstimateId, putEst, delJob, gone>>

\* DELETE /api/jobs/:id, first statement of deleteJob: delete the job's
\* estimates; an error of this statement is caught and logged
DeleteJobEstimates(lim, id) ==
    /\ Accept(lim)
    /\ \E ok \in BOOLEAN :
         estimates' = IF ok THEN Without(estimates, EstimatesOfJob(id, estimates))
                      ELSE estimates
    /\ delJob' = delJob \cup {[slot |-> FreeSlot, id |-> id,
                               before |-> EstimatesOfJob(id, estimates)]}
    /\ UNCHANGED <<jobs, nextJobId, nextEstimateId, putEst, last, gone>>

\* DELETE /api/jobs/:id, second statement of deleteJob: delete the job row
DeleteJobRow(d) ==
    /\ d \in delJob
    /\ delJob' = delJob \ {d}
    /\ \E ok \in BOOLEAN :
         IF ok /\ d.id \notin DOMAIN jobs
         THEN /\ last' = Response("DELETE /api/jobs/:id", d.id, NoBody, 404)
              /\ UNCHANGED <<jobs, gone>>
         ELSE IF ok /\ Unreferenced(d.id, estimates)
              THEN /\ jobs' = Without(jobs, {d.id})
                   /\ gone' = gone @@ (d.id :> d.before)
                   /\ last' = Response("DELETE /api/jobs/:id", d.id, NoBody, 204)
              ELSE /\ last' = ServerError("DELETE /api/jobs/:id", d.id, NoBody,
                            IF ok THEN ConstraintViolated ELSE Unavailable)
                   /\ UNCHANGED <<jobs, gone>>
    /\ UNCHANGED <<estimates, nextJobId, nextEstimateId, putEst, issued>>


\* req.query.jobId ? parseInt(req.query.jobId) : undefined, then if (jobId):
\* the job whose estimates are selected, or 0 when all are
QueriedJob(q) ==
    IF ~q.given \/ q.v = <<>> \/ parseInt(q.v).isNaN THEN 0 ELSE parseInt(q.v).v

\* GET /api/estimates: body is the query, entity the rows returned
GetEstimates(lim, q) ==
    /\ Accept(lim)
    /\ \E ok \in BOOLEAN :
         last' = IF ~ok THEN ServerError("GET /api/estimates", 0, q, Unavailable)
                 ELSE [Response("GET /api/estimates", 0, q, 200) EXCEPT !.entity =
                         IF QueriedJob(q) # 0
                         THEN {estimates[e] : e \in EstimatesOfJob(QueriedJob(q), estimates)}
                         ELSE {estimates[e] : e \in DOMAIN estimates}]
    /\ UNCHANGED <<jobs, estimates, nextJobId, nextEstimateId, putEst, delJob, gone>>

\* GET /api/estimates/:id
GetEstimate(lim, id) ==
    /\ Accept(lim)
    /\ \E ok \in BOOLEAN :
         last' = IF ~ok THEN ServerError("GET /api/estimates/:id", id, NoBody, Unavailable)
                 ELSE IF id \notin DOMAIN estimates
                      THEN Response("GET /api/estimates/:id", id, NoBody, 404)
                      ELSE Response("GET /api/estimates/:id", id, {estimates[id]}, 200)
    /\ UNCHANGED <<jobs, estimates, nextJobId, nextEstimateId, putEst, delJob, gone>>

\* new Date(): the server clock, which ticks at least once between two inserts
Now == nextEstimateId

\* what POST /api/estimates hands to createEstimate
PostEstimateData(data) ==
    [cubicYards |-> calculateCubicYards(data.pipeLength, data.trenchWidth, data.trenchDepth),
     materialWeight |-> data.materialWeight] @@ data

\* POST /api/estimates
PostEstimate(lim, body) ==
    /\ Accept(lim)
    /\ IF ~estimateValidationSchemaOk(body, FALSE)
       THEN /\ last' = Response("POST /api/estimates", 0, body, 400)
            /\ UNCHANGED <<estimates, nextEstimateId>>
       ELSE LET data == PostEstimateData(estimateValidationSchemaData(body))
            IN  \E ok \in BOOLEAN :
                  IF ok /\ ForeignKeyHolds(data.jobId, jobs)
                  THEN /\ nextEstimateId <= MaxEstimates
                       /\ estimates' = estimates @@
                            (nextEstimateId :> createEstimateRow(nextEstimateId, data, Now))
                       /\ nextEstimateId' = nextEstimateId + 1
                       /\ last' = WithEntity(Response("POST /api/estimates", nextEstimateId, body, 201),
                                             estimates'[nextEstimateId])
                  ELSE /\ last' = ServerError("POST /api/estimates", 0, body,
                            IF ok THEN ConstraintViolated ELSE Unavailable)
                       /\ UNCHANGED <<estimates, nextEstimateId>>
    /\ UNCHANGED <<jobs, nextJobId, putEst, delJob, gone>>

\* storage.getEstimate called before the body is validated
PutEstimateReadLookupFirst(lim, id, body) ==
    /\ Accept(lim)
    /\ \E ok \in BOOLEAN :
         IF ~ok
         THEN /\ last' = ServerError("PUT /api/estimates/:id", id, body, Unavailable)
              /\ UNCHANGED putEst
         ELSE IF id \notin DOMAIN estimates
         THEN /\ last' = Response("PUT /api/estimates/:id", id, body, 404)
              /\ UNCHANGED putEst
         ELSE IF ~estimateValidationSchemaOk(body, TRUE)
         THEN /\ last' = Response("PUT /api/estimates/:id", id, body, 400)
              /\ UNCHANGED putEst
         ELSE /\ putEst' = putEst \cup {[slot |-> FreeSlot, id |-> id, body |-> body,
                                         currentEstimate |-> estimates[id]]}
              /\ UNCHANGED last
    /\ UNCHANGED <<jobs, estimates, nextJobId, nextEstimateId, delJob, gone>>

\* PUT /api/estimates/:id up to and including storage.getEstimate
PutEstimateRead(lim, id, body) ==
    /\ Accept(lim)
    /\ IF ~estimateValidationSchemaOk(body, TRUE)
       THEN /\ last' = Response("PUT /api/estimates/:id", id, body, 400)
            /\ UNCHANGED putEst
       ELSE \E ok \in BOOLEAN :
              IF ~ok
              THEN /\ last' = ServerError("PUT /api/estimates/:id", id, body, Unavailable)
                   /\ UNCHANGED putEst
              ELSE IF id \notin DOMAIN estimates
                   THEN /\ last' = Response("PUT /api/estimates/:id", id, body, 404)
                        /\ UNCHANGED putEst
                   ELSE /\ putEst' = putEst \cup {[slot |-> FreeSlot, id |-> id, body |-> body,
                                                   currentEstimate |-> estimates[id]]}
                        /\ UNCHANGED last
    /\ UNCHANGED <<jobs, estimates, nextJobId, nextEstimateId, delJob, gone>>

\* the spread written after the computed fields: the body's cubicYards wins
PutEstimateDataBodyWins(data, currentEstimate) ==
    data @@ [cubicYards |-> currentEstimate.cubicYards,
             materialWeight |-> currentEstimate.materialWeight]

\* cubicYards recomputed only from a body that carries all three dimensions
PutEstimateDataOwnDimensions(data, currentEstimate) ==
    [cubicYards |-> IF Dimensions \subseteq DOMAIN data
                    THEN calculateCubicYards(data.pipeLength, data.trenchWidth,
                                             data.trenchDepth)
                    ELSE currentEstimate.cubicYards,
     materialWeight |-> IF Has(data, "materialWeight") THEN data.materialWeight
                        ELSE currentEstimate.materialWeight] @@ data

\* what PUT /api/estimates/:id hands to updateEstimate
PutEstimateData(data, currentEstimate) ==
    LET newPipeLength  == IF Has(data, "pipeLength") THEN data.pipeLength
                          ELSE currentEstimate.pipeLength
        newTrenchWidth == IF Has(data, "trenchWidth") THEN data.trenchWidth
                          ELSE currentEstimate.trenchWidth
        newTrenchDepth == IF Has(data, "trenchDepth") THEN data.trenchDepth
                          ELSE currentEstimate.trenchDepth
        cubicYards     == IF (DOMAIN data) \cap Dimensions # {}
                          THEN calculateCubicYards(newPipeLength, newTrenchWidth, newTrenchDepth)
                          ELSE currentEstimate.cubicYards
    IN  [cubicYards |-> cubicYards,
         materialWeight |-> IF Has(data, "materialWeight") THEN data.materialWeight
                            ELSE currentEstimate.materialWeight] @@ data

\* PUT /api/estimates/:id from storage.updateEstimate on
PutEstimateWrite(p) ==
    /\ p \in putEst
    /\ putEst' = putEst \ {p}
    /\ LET data == PutEstimateData(estimateValidationSchemaData(p.body), p.currentEstimate)
       IN  \E ok \in BOOLEAN :
             IF ok /\ p.id \notin DOMAIN estimates
             THEN /\ last' = Response("PUT /api/estimates/:id", p.id, p.body, 404)
                  /\ UNCHANGED estimates
             ELSE IF ok /\ ForeignKeyHolds(updateEstimateRow(estimates[p.id], data).jobId, jobs)
                  THEN /\ estimates' = [estimates EXCEPT ![p.id] = updateEstimateRow(@, data)]
                       /\ last' = WithEntity(Response("PUT /api/estimates/:id", p.id, p.body, 200),
                                             estimates'[p.id])
                  ELSE /\ last' = ServerError("PUT /api/estimates/:id", p.id, p.body,
                            IF ok THEN ConstraintViolated ELSE Unavailable)
                       /\ UNCHANGED estimates
    /\ UNCHANGED <<jobs, nextJobId, nextEstimateId, delJob, issued, gone>>

\* DELETE /api/estimates/:id
DeleteEstimate(lim, id) ==
    /\ Accept(lim)
    /\ \E ok \in BOOLEAN :
         IF ~ok
         THEN /\ last' = ServerError("DELETE /api/estimates/:id", id, NoBody, Unavailable)
              /\ UNCHANGED estimates
         ELSE IF id \notin DOMAIN estimates
              THEN /\ last' = Response("DELETE /api/estimates/:id", id, NoBody, 404)
                   /\ UNCHANGED estimates
              ELSE /\ estimates' = Without(estimates, {id})
                   /\ last' = Response("DELETE /api/estimates/:id", id, NoBody, 204)
    /\ UNCHANGED <<jobs, nextJobId, nextEstimateId, putEst, delJob, gone>>

\* ---- specifications ----
Serve(lim) ==
    \/ GetJobs(lim) /\ UNCHANGED clientVars
    \/ \E id \in JobIdInputs : GetJob(lim, id) /\ UNCHANGED clientVars
    \/ \E body \in JobBodies : PostJob(lim, body) /\ UNCHANGED clientVars
    \/ \E id \in JobIdInputs, body \in JobPatches : PutJob(lim, id, body) /\ UNCHANGED clientVars
    \/ \E id \in JobIdInputs : DeleteJobEstimates(lim, id) /\ UNCHANGED clientVars
    \/ \E d \in delJob : DeleteJobRow(d) /\ UNCHANGED clientVars
    \/ \E q \in JobIdQueries : GetEstimates(lim, q) /\ UNCHANGED clientVars
    \/ \E id \in EstimateIdInputs : GetEstimate(lim, id) /\ UNCHANGED clientVars
    \/ \E body \in EstimateBodies : PostEstimate(lim, body) /\ UNCHANGED clientVars
    \/ \E id \in EstimateIdInputs, body \in EstimatePatches : PutEstimateRead(lim, id, body) /\ UNCHANGED clientVars
    \/ \E p \in putEst : PutEstimateWrite(p) /\ UNCHANGED clientVars
    \/ \E id \in EstimateIdInputs : DeleteEstimate(lim, id) /\ UNCHANGED clientVars

\* requests served concurrently, interleaved at single database statements
Next == Serve(MaxInflight)
Spec == Init /\ [][Next]_vars

\* each request runs to completion before the next starts
NextSerial == Serve(1)
SpecSerial == Init /\ [][NextSerial]_vars


\* ---- calculators ----
\* Exact arithmetic: a figure is a fraction in lowest terms. Feet, pounds per
\* cubic foot and hours are whole numbers; cubic yards come in hundredths and
\* dollar amounts in cents.
MaxDimension == 5
MaxHours == 8
DimensionInputs == (1..MaxDimension) \cup {100}
MaterialWeightInputs == {100, DefaultMaterialWeight}
ImportUnitCostInputs == {1000, DefaultImportUnitCost}
CubicYardsInputs == {0, 100, 2222}
HoursInputs == 0..MaxHours

RECURSIVE GCD(_, _)
GCD(a, b) == IF b = 0 THEN a ELSE GCD(b, a % b)
Ratio(n, d) == LET g == GCD(n, d) IN [num |-> n \div g, den |-> d \div g]
Times(a, b) ==
    LET g == GCD(a.num, b.den)
        h == GCD(b.num, a.den)
    IN  Ratio((a.num \div g) * (b.num \div h), (a.den \div h) * (b.den \div g))
Hundredths(n) == Ratio(n, 100)

\* dollars per cubic yard, in cents
HAUL_OFF_RATE == 3750
PoundsPerTon == 2000
EXCAVATOR_250_RATE == 250
EXCAVATOR_200_RATE == 200
LOADER_RATE == 200
PIPE_GUY_RATE == 45
TOP_GUY_RATE == 40

\* the figures VolumeCalculator derives from its props
VolumeFiguresLongTon(cubicYards, materialWeight, importUnitCost) ==
    LET tonsPerCubicYard == Ratio(materialWeight * CubicFeetPerCubicYard, 2240)
        totalTons == Times(tonsPerCubicYard, Hundredths(cubicYards))
    IN  [ haulOffCharge |-> Times(Hundredths(cubicYards), Hundredths(3500)),
          tonsPerCubicYard |-> tonsPerCubicYard,
          totalTons |-> totalTons,
          importCost |-> Times(Hundredths(importUnitCost), totalTons) ]

VolumeFigures(cubicYards, materialWeight, importUnitCost) ==
    LET tonsPerCubicYard == Ratio(materialWeight * CubicFeetPerCubicYard, PoundsPerTon)
        totalTons == Times(tonsPerCubicYard, Hundredths(cubicYards))
    IN  [ haulOffCharge |-> Times(Hundredths(cubicYards), Hundredths(HAUL_OFF_RATE)),
          tonsPerCubicYard |-> tonsPerCubicYard,
          totalTons |-> totalTons,
          importCost |-> Times(Hundredths(importUnitCost), totalTons) ]

\* the figures LaborCalculator derives from its prop
LaborFiguresOneExcavator(estimatedHours) ==
    LET excavator250Cost == estimatedHours * EXCAVATOR_250_RATE
        loaderCost == estimatedHours * LOADER_RATE
        pipeGuyCost == estimatedHours * PIPE_GUY_RATE
        topGuyCost == estimatedHours * TOP_GUY_RATE
        totalEquipmentCost == excavator250Cost + loaderCost
        totalCrewCost == pipeGuyCost + topGuyCost
    IN  [ totalEquipmentCost |-> totalEquipmentCost,
          totalCrewCost |-> totalCrewCost,
          total |-> totalEquipmentCost + totalCrewCost ]

LaborFigures(estimatedHours) ==
    LET excavator250Cost == estimatedHours * EXCAVATOR_250_RATE
        excavator200Cost == estimatedHours * EXCAVATOR_200_RATE
        loaderCost == estimatedHours * LOADER_RATE
        pipeGuyCost == estimatedHours * PIPE_GUY_RATE
        topGuyCost == estimatedHours * TOP_GUY_RATE
        totalEquipmentCost == excavator250Cost + excavator200Cost + loaderCost
        totalCrewCost == pipeGuyCost + topGuyCost
    IN  [ totalEquipmentCost |-> totalEquipmentCost,
          totalCrewCost |-> totalCrewCost,
          total |-> totalEquipmentCost + totalCrewCost ]

\* a call of the shared volume function
CalculateCubicYards(l, w, d) ==
    /\ calc' = [fn |-> "calculateCubicYards", in |-> <<l, w, d>>,
                out |-> [cubicYards |-> calculateCubicYards(l, w, d)]]
    /\ UNCHANGED <<serverVars, form, cache, page>>

\* a render of the volume calculator
VolumeCalculator(cubicYards, materialWeight, importUnitCost) ==
    /\ calc' = [fn |-> "VolumeCalculator",
                in |-> <<cubicYards, materialWeight, importUnitCost>>,
                out |-> VolumeFigures(cubicYards, materialWeight, importUnitCost)]
    /\ UNCHANGED <<serverVars, form, cache, page>>

\* a render of the labor calculator
LaborCalculator(estimatedHours) ==
    /\ calc' = [fn |-> "LaborCalculator", in |-> <<estimatedHours>>,
                out |-> LaborFigures(estimatedHours)]
    /\ UNCHANGED <<serverVars, form, cache, page>>

NextCalc ==
    \/ \E l \in DimensionInputs, w \in DimensionInputs, d \in DimensionInputs :
          CalculateCubicYards(l, w, d)
    \/ \E y \in CubicYardsInputs, m \in MaterialWeightInputs, c \in ImportUnitCostInputs :
          VolumeCalculator(y, m, c)
    \/ \E h \in HoursInputs : LaborCalculator(h)
SpecCalc == Init /\ [][NextCalc]_vars

\* ---- the client: forms, mutations and the query cache ----
\* Texts typed into the estimate form are sequences of characters; as in the
\* requests above, importUnitCost is written in cents.
JsonNull == [t |-> "null", n |-> 0, s |-> <<>>]
\* JSON.stringify of a number: NaN is sent as null
JsonNumber(parsed) == IF parsed.isNaN THEN JsonNull ELSE Num(parsed.v)

EstimateFormBase ==
    [ jobId |-> <<"1">>, pipeLength |-> <<"3">>, trenchWidth |-> <<"3">>,
      trenchDepth |-> <<"3">>, materialWeight |-> <<"1", "4", "5">>,
      importUnitCost |-> <<"2", "4", "5", "0">>, estimatedHours |-> <<"0">> ]
EstimateFormInputs ==
    { EstimateFormBase,
      [EstimateFormBase EXCEPT !.pipeLength = <<"1", "0", "0">>, !.trenchWidth = <<"2">>],
      [EstimateFormBase EXCEPT !.pipeLength = <<"5">>, !.materialWeight = <<"a", "b", "c">>,
                               !.estimatedHours = <<>>],
      [EstimateFormBase EXCEPT !.pipeLength = <<"0">>],
      [EstimateFormBase EXCEPT !.trenchDepth = <<"a", "b", "c">>],
      [EstimateFormBase EXCEPT !.trenchWidth = <<>>],
      [EstimateFormBase EXCEPT !.jobId = <<"a", "l", "l">>] }

\* formSchema of the estimate form: zodResolver(formSchema) lets the submit through
estimateFormSchemaOk(v) ==
    /\ v.jobId # <<>>
    /\ \A f \in Dimensions \cup {"materialWeight", "importUnitCost"} : v[f] # <<>>

\* isNaN(parsed) ? d : parsed
ParseElse(s, d) == LET parsed == parseFloat(s) IN IF parsed.isNaN THEN d ELSE parsed.v

\* the data formSchema hands to onSubmit
estimateFormSchemaData(v) ==
    [ jobId          |-> v.jobId,
      pipeLength     |-> ParseElse(v.pipeLength, 0),
      trenchWidth    |-> ParseElse(v.trenchWidth, 0),
      trenchDepth    |-> ParseElse(v.trenchDepth, 0),
      materialWeight |-> ParseElse(v.materialWeight, DefaultMaterialWeight),
      importUnitCost |-> ParseElse(v.importUnitCost, DefaultImportUnitCost),
      estimatedHours |-> ParseElse(v.estimatedHours, 0) ]

\* a preview that cuts the volume off after the second decimal
calculateVolumeTruncated(v) ==
    LET length == parseFloat(v.pipeLength)
        width  == parseFloat(v.trenchWidth)
        depth  == parseFloat(v.trenchDepth)
    IN  IF v.pipeLength = <<>> \/ v.trenchWidth = <<>> \/ v.trenchDepth = <<>> THEN 0
        ELSE IF length.isNaN \/ width.isNaN \/ depth.isNaN THEN 0
        ELSE calculateCubicYardsTruncated(length.v, width.v, depth.v)

\* the live preview: cubicYards of the watched fields, 0 while one is empty
\* or not a number
calculateVolume(v) ==
    LET length == parseFloat(v.pipeLength)
        width  == parseFloat(v.trenchWidth)
        depth  == parseFloat(v.trenchDepth)
    IN  IF v.pipeLength = <<>> \/ v.trenchWidth = <<>> \/ v.trenchDepth = <<>> THEN 0
        ELSE IF length.isNaN \/ width.isNaN \/ depth.isNaN THEN 0
        ELSE calculateCubicYards(length.v, width.v, depth.v)

\* the request body mutationFn builds from the form's data
apiData(v) ==
    LET data == estimateFormSchemaData(v)
    IN  [ jobId          |-> JsonNumber(parseInt(data.jobId)),
          description    |-> "",
          pipeLength     |-> Num(data.pipeLength),
          trenchWidth    |-> Num(data.trenchWidth),
          trenchDepth    |-> Num(data.trenchDepth),
          materialWeight |-> Num(data.materialWeight),
          importUnitCost |-> Num(data.importUnitCost),
          estimatedHours |-> Num(data.estimatedHours),
          cubicYards     |-> Num(calculateCubicYards(data.pipeLength, data.trenchWidth,
                                                     data.trenchDepth)),
          notes          |-> "" ]

JobFormBase ==
    [ name |-> "Main St sewer", location |-> "Dallas", client |-> "Acme",
      startDate |-> "", status |-> "pending", notes |-> "" ]
JobFormInputs ==
    { JobFormBase,
      [JobFormBase EXCEPT !.status = "completed"],
      [JobFormBase EXCEPT !.name = ""] }

\* formSchema of the job form
jobFormSchemaOk(v) ==
    /\ v.name # "" /\ v.location # "" /\ v.client # ""
    /\ v.status \in JobStatus

\* query keys: ['/api/jobs'], ['/api/estimates'] and ['/api/estimates', job.id]
QueryKey(path, jobId) == [path |-> path, jobId |-> jobId]
JobsKey == QueryKey("/api/jobs", 0)
EstimatesKey == QueryKey("/api/estimates", 0)
JobEstimatesKey(j) == QueryKey("/api/estimates", j)

\* response.ok
Ok(r) == r.code >= 200 /\ r.code <= 299

\* a query key matches the cached keys it is a prefix of
Matches(queryKey, k) ==
    /\ k.path = queryKey.path
    /\ queryKey.jobId = 0 \/ k.jobId = queryKey.jobId

\* queryClient.invalidateQueries({ queryKey })
invalidateQueries(c, queryKey) ==
    [k \in DOMAIN c |-> IF Matches(queryKey, k) THEN [c[k] EXCEPT !.stale = TRUE] ELSE c[k]]

\* the data of a fetch settles in the cache, fresh
SetQueryData(c, k, data) == (k :> [data |-> data, stale |-> FALSE]) @@ c

\* useQuery(['/api/jobs']) fetches the list of jobs
UseQueryJobs ==
    /\ GetJobs(1)
    /\ cache' = IF Ok(last') THEN SetQueryData(cache, JobsKey, last'.body) ELSE cache
    /\ UNCHANGED <<calc, form, page>>

\* useQuery(['/api/estimates']) fetches the list of estimates
UseQueryEstimates ==
    /\ GetEstimates(1, NoQuery)
    /\ cache' = IF Ok(last') THEN SetQueryData(cache, EstimatesKey, last'.entity) ELSE cache
    /\ UNCHANGED <<calc, form, page>>

\* a job card fetches /api/estimates?jobId=<job.id>
UseQueryJobEstimates(j) ==
    /\ j < nextJobId
    /\ GetEstimates(1, Query(<<Digits[j + 1]>>))
    /\ cache' = IF Ok(last') THEN SetQueryData(cache, JobEstimatesKey(j), last'.entity)
                 ELSE cache
    /\ UNCHANGED <<calc, form, page>>

\* the job form is submitted: POST, or PUT for the job being edited (0: none)
SubmitJobForm(v, jobToEdit) ==
    /\ jobFormSchemaOk(v)
    /\ jobToEdit < nextJobId
    /\ IF jobToEdit # 0 THEN PutJob(1, jobToEdit, v) ELSE PostJob(1, v)
    /\ cache' = IF Ok(last') THEN invalidateQueries(cache, JobsKey) ELSE cache
    /\ UNCHANGED <<calc, form, page>>

\* deleteJobMutation.mutate(jobId): the request is sent
DeleteJobMutate(jobId) ==
    /\ jobId < nextJobId
    /\ DeleteJobEstimates(1, jobId)
    /\ UNCHANGED clientVars

\* deleteJobMutation settles: onSuccess invalidates
DeleteJobSettle(d) ==
    /\ DeleteJobRow(d)
    /\ cache' = IF Ok(last') THEN invalidateQueries(cache, JobsKey) ELSE cache
    /\ UNCHANGED <<calc, form, page>>

\* the estimate form is submitted: POST, or PUT for the estimate being edited
\* (0: none); the PUT settles in UpdateEstimateSettle unless refused at once
SubmitEstimateForm(v, estimateToEdit) ==
    /\ estimateToEdit < nextEstimateId
    /\ estimateFormSchemaOk(v)
    /\ IF estimateToEdit # 0
       THEN /\ PutEstimateRead(1, estimateToEdit, apiData(v))
            /\ cache' = cache
       ELSE /\ PostEstimate(1, apiData(v))
            /\ cache' = IF Ok(last') THEN invalidateQueries(cache, EstimatesKey) ELSE cache
    /\ form' = [values |-> v, preview |-> calculateVolume(v), sent |-> apiData(v),
                id |-> estimateToEdit]
    /\ UNCHANGED <<calc, page>>

UpdateEstimateSettle(p) ==
    /\ PutEstimateWrite(p)
    /\ cache' = IF Ok(last') THEN invalidateQueries(cache, EstimatesKey) ELSE cache
    /\ UNCHANGED <<calc, form, page>>

\* deleteEstimateMutation.mutate(id)
DeleteEstimateMutate(id) ==
    /\ id < nextEstimateId
    /\ DeleteEstimate(1, id)
    /\ cache' = IF Ok(last') THEN invalidateQueries(cache, EstimatesKey) ELSE cache
    /\ UNCHANGED <<calc, form, page>>

\* one browser: every request comes from a form, a button or a query, and is
\* settled before the next is sent
NextClient ==
    \/ UseQueryJobs
    \/ UseQueryEstimates
    \/ \E j \in JobIdInputs : UseQueryJobEstimates(j)
    \/ \E v \in JobFormInputs, jobToEdit \in {0} \cup JobIdInputs : SubmitJobForm(v, jobToEdit)
    \/ \E jobId \in JobIdInputs : DeleteJobMutate(jobId)
    \/ \E d \in delJob : DeleteJobSettle(d)
    \/ \E v \in EstimateFormInputs, estimateToEdit \in {0} \cup EstimateIdInputs :
          SubmitEstimateForm(v, estimateToEdit)
    \/ \E p \in putEst : UpdateEstimateSettle(p)
    \/ \E id \in EstimateIdInputs : DeleteEstimateMutate(id)
SpecClient == Init /\ [][NextClient]_vars

\* ---- the page: Header, Home and EstimatesList ----
MaxTimers == 2
\* the tab parameter of a URL, "" when it has none
UrlInputs == {"", "jobs", "estimates"}
TabInputs == {"jobs", "estimates"}
Event(name, arg) == [name |-> name, arg |-> arg]

\* params.get("tab") === "estimates" ? "estimates" : "jobs"
updateTabFromURL(url) == IF url = "estimates" THEN "estimates" ELSE "jobs"

\* a Header that does not listen to openAddEstimate
headerIgnoresOpenAddEstimate(tab) == tab

\* Header's listener of openAddEstimate
headerHandleOpenAddEstimate(tab) == "estimates"

\* EstimatesList.handleCloseModal
handleCloseModal(p) == [p EXCEPT !.isAddEstimateOpen = FALSE, !.estimateToEdit = 0]

\* EstimatesList is mounted: the initial values of its state, then its
\* effects run for the first time
EstimatesListMount(p) ==
    [p EXCEPT !.mounted = TRUE,
              !.isAddEstimateOpen = p.openAddEstimateModal,
              !.selectedJobId = p.homeSelectedJobId,
              !.estimateToEdit = 0,
              !.timers = IF p.openAddEstimateModal THEN @ + 1 ELSE @,
              !.openedBy = IF p.openAddEstimateModal THEN "initialOpenModal" ELSE "none"]

EstimatesListUnmount(p) ==
    [p EXCEPT !.mounted = FALSE, !.isAddEstimateOpen = FALSE, !.selectedJobId = 0,
              !.estimateToEdit = 0, !.openedBy = "none"]

\* Home rendered again while EstimatesList stays mounted: resetModalState is a
\* new function, so the first effect runs again; the second runs when
\* initialSelectedJobId changed
EstimatesListUpdate(q, p) ==
    [p EXCEPT !.isAddEstimateOpen = IF p.openAddEstimateModal THEN TRUE ELSE @,
              !.openedBy = IF p.openAddEstimateModal THEN "initialOpenModal" ELSE @,
              !.timers = IF p.openAddEstimateModal THEN @ + 1 ELSE @,
              !.selectedJobId = IF p.homeSelectedJobId # q.homeSelectedJobId
                                   /\ p.homeSelectedJobId # 0
                                THEN p.homeSelectedJobId ELSE @]

\* React renders Home when its state changed from q to p
Render(q, p) ==
    IF <<p.activeTab, p.openAddEstimateModal, p.homeSelectedJobId>>
         = <<q.activeTab, q.openAddEstimateModal, q.homeSelectedJobId>>
    THEN p
    ELSE IF p.activeTab = "estimates"
         THEN IF q.mounted THEN EstimatesListUpdate(q, p) ELSE EstimatesListMount(p)
         ELSE IF q.mounted THEN EstimatesListUnmount(p) ELSE p

\* the handlers change page to p; Home is rendered and no more than
\* MaxTimers timers are pending
Handle(p) ==
    /\ page' = Render(page, p)
    /\ page'.timers <= MaxTimers
    /\ UNCHANGED <<serverVars, calc, form, cache>>

\* the page is opened at a URL: Header and Home read the tab from it
Load(url) ==
    /\ ~page.loaded
    /\ page' = Render(NotLoaded,
                      [NotLoaded EXCEPT !.loaded = TRUE, !.url = url,
                                        !.header = updateTabFromURL(url),
                                        !.activeTab = updateTabFromURL(url),
                                        !.event = Event("load", 0)])
    /\ UNCHANGED <<serverVars, calc, form, cache>>

\* Header.handleTabChange: a tab button of the header is clicked
HeaderTabClick(tab) ==
    /\ page.loaded
    /\ Handle([page EXCEPT !.header = tab, !.activeTab = tab, !.url = tab,
                           !.event = Event("tabClick", 0)])

\* the browser goes back or forward to a history entry with this URL
PopState(url) ==
    /\ page.loaded
    /\ Handle([page EXCEPT !.url = url,
                           !.header = updateTabFromURL(url),
                           !.activeTab = updateTabFromURL(url),
                           !.event = Event("popstate", 0)])

\* the logo link: a new history entry for "/", no popstate
HomeLinkClick ==
    /\ page.loaded
    /\ Handle([page EXCEPT !.url = "", !.event = Event("link", 0)])

\* a job card's "Add Estimate": openAddEstimate and tabChange are dispatched
\* to the listeners mounted, then the URL is replaced
setAddEstimateOpen(jobId) ==
    /\ page.loaded
    /\ page.activeTab = "jobs"
    /\ Handle([page EXCEPT
                  !.header = headerHandleOpenAddEstimate(@),
                  !.homeSelectedJobId = jobId,
                  !.openAddEstimateModal = TRUE,
                  !.activeTab = "estimates",
                  !.selectedJobId = IF page.mounted THEN jobId ELSE @,
                  !.estimateToEdit = IF page.mounted THEN 0 ELSE @,
                  !.isAddEstimateOpen = IF page.mounted THEN TRUE ELSE @,
                  !.url = "estimates",
                  !.event = Event("addEstimate", jobId)])

\* a timer set by EstimatesList fires: Home.resetModalState
resetModalState ==
    /\ page.timers > 0
    /\ Handle([page EXCEPT !.timers = @ - 1,
                           !.openAddEstimateModal = FALSE,
                           !.homeSelectedJobId = 0,
                           !.event = Event("timer", 0)])

\* the "Add New Estimate" button, the dialog's trigger: onOpenChange(true)
AddNewEstimateClick ==
    /\ page.mounted /\ ~page.isAddEstimateOpen
    /\ Handle([page EXCEPT !.isAddEstimateOpen = TRUE,
                           !.openedBy = "Add New Estimate",
                           !.event = Event("addNew", 0)])

\* the edit button of a row of the estimates table
handleEditEstimate(estimate) ==
    /\ page.mounted /\ ~page.isAddEstimateOpen
    /\ Handle([page EXCEPT !.estimateToEdit = estimate,
                           !.isAddEstimateOpen = TRUE,
                           !.openedBy = "Edit",
                           !.event = Event("edit", estimate)])

\* Escape, the close button or a click outside: onOpenChange(false)
DismissDialog ==
    /\ page.mounted /\ page.isAddEstimateOpen
    /\ Handle([page EXCEPT !.isAddEstimateOpen = FALSE, !.event = Event("dismiss", 0)])

\* the form's Cancel button: onComplete
CancelForm ==
    /\ page.mounted /\ page.isAddEstimateOpen
    /\ Handle([handleCloseModal(page) EXCEPT !.event = Event("cancel", 0)])

\* the form is submitted: PUT for the estimate being edited, else POST;
\* onComplete when the request succeeded
SubmitForm(ok) ==
    /\ page.mounted /\ page.isAddEstimateOpen
    /\ LET request == IF page.estimateToEdit # 0
                      THEN [method |-> "PUT", id |-> page.estimateToEdit]
                      ELSE [method |-> "POST", id |-> 0]
           p == [page EXCEPT !.request = request, !.event = Event("submit", 0)]
       IN  Handle(IF ok THEN handleCloseModal(p) ELSE p)

\* the job filter of the estimates list
SelectJobFilter(jobId) ==
    /\ page.mounted /\ ~page.isAddEstimateOpen
    /\ Handle([page EXCEPT !.selectedJobId = jobId, !.event = Event("filter", jobId)])

NextPage ==
    \/ \E url \in UrlInputs : Load(url)
    \/ \E tab \in TabInputs : HeaderTabClick(tab)
    \/ \E url \in UrlInputs : PopState(url)
    \/ HomeLinkClick
    \/ \E jobId \in JobIdInputs : setAddEstimateOpen(jobId)
    \/ resetModalState
    \/ AddNewEstimateClick
    \/ \E estimate \in EstimateIdInputs : handleEditEstimate(estimate)
    \/ DismissDialog
    \/ CancelForm
    \/ \E ok \in BOOLEAN : SubmitForm(ok)
    \/ \E jobId \in {0} \cup JobIdInputs : SelectJobFilter(jobId)
SpecPage == Init /\ [][NextPage]_vars


\* ---- properties ----
Idle == putEst = {} /\ delJob = {}
\* number of responses sent so far
Answered == issued - InFlight

\* c is (l * w * d) / 27 to the nearest hundredth, in hundredths
NearestHundredth(c, l, w, d) ==
    LET diff == 100 * l * w * d - CubicFeetPerCubicYard * c
    IN  2 * diff <= CubicFeetPerCubicYard /\ 2 * diff > 0 - CubicFeetPerCubicYard

CubicYardsOf(row) ==
    NearestHundredth(row.cubicYards, row.pipeLength, row.trenchWidth, row.trenchDepth)

\* C1: with requests served one at a time, every stored estimate has
\* cubicYards = round2(pipeLength * trenchWidth * trenchDepth / 27) of its
\* stored dimensions
C1_CubicYardsDerived == \A e \in DOMAIN estimates : CubicYardsOf(estimates[e])

\* a PUT with a dimension was answered 200 and the row's cubicYards moved
C1_Witness ==
    /\ last.op = "PUT /api/estimates/:id"
    /\ last.code = 200
    /\ (DOMAIN last.body) \cap Dimensions # {}
    /\ last.id \in DOMAIN estimates
    /\ estimates[last.id].cubicYards # 100

\* C2: with requests served concurrently, once no request is in flight every
\* stored estimate has cubicYards = round2(pipeLength * trenchWidth *
\* trenchDepth / 27)
C2_CubicYardsDerivedWhenIdle == Idle => \A e \in DOMAIN estimates : CubicYardsOf(estimates[e])


\* C3, in every state: a job whose DELETE was answered 204 is stored no more,
\* no estimate names it, and no later GET /api/jobs or GET /api/jobs/:id
\* returns it
C3_DeletedStaysDeleted ==
    /\ \A j \in DOMAIN gone : j \notin DOMAIN jobs /\ EstimatesOfJob(j, estimates) = {}
    /\ (last.op = "GET /api/jobs" /\ last.code = 200)
         => \A row \in last.body : row.id \notin DOMAIN gone
    /\ (last.op = "GET /api/jobs/:id" /\ last.id \in DOMAIN gone) => last.code # 200

\* C3, in every step: a job row is deleted only when its estimates are
\* already deleted
C3_EstimatesFirst == \A j \in (DOMAIN jobs) \ (DOMAIN jobs') : EstimatesOfJob(j, estimates) = {}

\* C3: DELETE /api/jobs/:id answered 204 leaves no estimate of the job and
\* the job absent from every later GET; the estimates go before the job row
C3_CascadeDelete == []C3_DeletedStaysDeleted /\ [][C3_EstimatesFirst]_vars

\* a job that had estimates was deleted with 204, and GET /api/jobs ran after
C3_Witness ==
    /\ \E j \in DOMAIN gone : gone[j] # {}
    /\ last.op = "GET /api/jobs"
    /\ last.code = 200

\* the state a DELETE /api/jobs/:id request d leaves is all or nothing
AllOrNothing(d, jobTable, estimateTable) ==
    \/ d.id \notin DOMAIN jobTable /\ EstimatesOfJob(d.id, estimateTable) = {}
    \/ d.id \in DOMAIN jobTable /\ d.before \subseteq EstimatesOfJob(d.id, estimateTable)

\* C4: when a DELETE /api/jobs/:id request ends, whatever its response,
\* either the job and all its estimates are gone or the job and all the
\* estimates it had before the request are still stored
C4_DeleteJobAllOrNothing ==
    [][\A d \in delJob : d \notin delJob' => AllOrNothing(d, jobs', estimates')]_vars

\* C5: every stored estimate's jobId is the id of a stored job
C5_JobIdReferencesJob == \A e \in DOMAIN estimates : estimates[e].jobId \in DOMAIN jobs

\* a PUT moved an estimate to another job
C5_Witness ==
    /\ last.op = "PUT /api/estimates/:id"
    /\ last.code = 200
    /\ Has(last.body, "jobId")
    /\ last.id \in DOMAIN estimates
    /\ estimates[last.id].jobId = 2
    /\ 2 \in DOMAIN jobs


\* the body of request r fails the validation of r's handler
FailsValidation(r) ==
    \/ r.op = "POST /api/jobs" /\ ~insertJobSchemaOk(r.body, FALSE)
    \/ r.op = "PUT /api/jobs/:id" /\ ~insertJobSchemaOk(r.body, TRUE)
    \/ r.op = "POST /api/estimates" /\ ~estimateValidationSchemaOk(r.body, FALSE)
    \/ r.op = "PUT /api/estimates/:id" /\ ~estimateValidationSchemaOk(r.body, TRUE)

\* C6, in every state: a request whose body fails validation was answered
\* 400, and none is being served beyond its validation
C6_InvalidAnswered400 ==
    /\ FailsValidation(last) => last.code = 400
    /\ \A p \in putEst : estimateValidationSchemaOk(p.body, TRUE)

\* C6, in every step: answering a request whose body fails validation
\* leaves the stored jobs and estimates as they were
C6_InvalidLeavesStore ==
    (Answered' > Answered /\ FailsValidation(last')) => UNCHANGED <<jobs, estimates>>

\* C6: POST and PUT on /api/jobs and /api/estimates answer a body that fails
\* validation with 400 and leave the stored jobs and estimates unchanged
C6_ValidationFailure == []C6_InvalidAnswered400 /\ [][C6_InvalidLeavesStore]_vars

\* a PUT with an invalid body, addressed to a stored job, was answered 400
C6_Witness ==
    /\ last.op = "PUT /api/jobs/:id"
    /\ FailsValidation(last)
    /\ last.id \in DOMAIN jobs
    /\ last.code = 400

\* body b carries a dimension that is a number <= 0
NonPositiveDimension(b) ==
    \E f \in (DOMAIN b) \cap Dimensions : b[f].t = "number" /\ b[f].n <= 0

\* C7: a POST or PUT on /api/estimates with a dimension that is 0 or
\* negative is answered 400, and every stored estimate has its three
\* dimensions > 0
C7_PositiveDimensions ==
    /\ (last.op \in {"POST /api/estimates", "PUT /api/estimates/:id"}
          /\ NonPositiveDimension(last.body)) => last.code = 400
    /\ \A e \in DOMAIN estimates :
         /\ estimates[e].pipeLength > 0
         /\ estimates[e].trenchWidth > 0
         /\ estimates[e].trenchDepth > 0

\* a POST with pipeLength = 0 for a stored job was answered 400
C7_Witness ==
    /\ last.op = "POST /api/estimates"
    /\ Has(last.body, "pipeLength")
    /\ last.body.pipeLength = Num(0)
    /\ last.body.jobId.n \in DOMAIN jobs
    /\ last.code = 400
    /\ estimates # <<>>

\* C8: every stored job's status is "pending", "in-progress" or "completed"
C8_StatusEnumerated == \A j \in DOMAIN jobs : jobs[j].status \in JobStatus

\* C9: every stored estimate has materialWeight > 0 and importUnitCost > 0
C9_PositiveWeightAndCost ==
    \A e \in DOMAIN estimates :
        estimates[e].materialWeight > 0 /\ estimates[e].importUnitCost > 0

\* C10: every stored estimate has estimatedHours >= 0
C10_NonNegativeHours == \A e \in DOMAIN estimates : estimates[e].estimatedHours >= 0

\* C11: every stored job has a non-empty name, location and client
C11_NonEmptyJobText ==
    \A j \in DOMAIN jobs : \A f \in JobRequired : jobs[j][f] \notin {"", NULL}

\* body b with its cubicYards field set to the number c
WithCubicYards(b, c) == [cubicYards |-> Num(c)] @@ b

\* C12: what a POST /api/estimates for a stored job stores does not depend on
\* the cubicYards field of its body: the body and the same body with another
\* cubicYards are both refused at validation or both handed to storage
C12_CubicYardsNotTrusted ==
    (last.op = "POST /api/estimates" /\ last.body.jobId.n \in DOMAIN jobs)
      => (estimateValidationSchemaOk(last.body, FALSE)
            <=> estimateValidationSchemaOk(WithCubicYards(last.body, 1), FALSE))

\* dimension f as PUT request p merges it: the body's value, else the value
\* of the row the request read
MergedDimension(p, f) == IF Has(p.body, f) THEN p.body[f].n ELSE p.currentEstimate[f]

\* C13, in every step: a PUT /api/estimates/:id answered 200 whose body has a
\* dimension stores the body's dimensions and cubicYards = round2(L * W * D /
\* 27) of the merged dimensions
C13_MergedStep ==
    \A p \in putEst \ putEst' :
        (last'.code = 200 /\ (DOMAIN p.body) \cap Dimensions # {})
          => /\ p.id \in DOMAIN estimates'
             /\ \A f \in (DOMAIN p.body) \cap Dimensions : estimates'[p.id][f] = p.body[f].n
             /\ NearestHundredth(estimates'[p.id].cubicYards,
                                 MergedDimension(p, "pipeLength"),
                                 MergedDimension(p, "trenchWidth"),
                                 MergedDimension(p, "trenchDepth"))

\* C13: a PUT /api/estimates/:id with some of pipeLength, trenchWidth,
\* trenchDepth stores cubicYards computed from the body's dimensions where
\* present and the previously stored ones otherwise
C13_MergedDimensions == [][C13_MergedStep]_vars

\* a PUT of pipeLength alone was answered 200 on a row whose width an earlier
\* PUT had changed, and cubicYards is that of 6 x 9 x 3
C13_Witness ==
    /\ last.op = "PUT /api/estimates/:id"
    /\ last.code = 200
    /\ DOMAIN last.body = {"pipeLength"}
    /\ last.id \in DOMAIN estimates
    /\ estimates[last.id].pipeLength = 6
    /\ estimates[last.id].trenchWidth = 9
    /\ estimates[last.id].cubicYards = 600

JobIdOps == {"GET /api/jobs/:id", "PUT /api/jobs/:id", "DELETE /api/jobs/:id"}
EstimateIdOps ==
    {"GET /api/estimates/:id", "PUT /api/estimates/:id", "DELETE /api/estimates/:id"}

\* response r answers a request whose id matches no stored row
AbsentId(r) ==
    \/ r.op \in JobIdOps /\ r.id \notin DOMAIN jobs
    \/ r.op \in EstimateIdOps /\ r.id \notin DOMAIN estimates

\* C14, in every step: a GET, PUT or DELETE by id whose id matches no stored
\* row (its body valid, the backend up) is answered 404 and changes nothing
C14_AbsentIdStep ==
    (Answered' > Answered /\ AbsentId(last') /\ ~FailsValidation(last')
       /\ last'.error # Unavailable)
      => (last'.code = 404 /\ UNCHANGED <<jobs, estimates>>)

\* C14, in every step: the first statement of a DELETE /api/jobs/:id whose id
\* matches no job deletes nothing
C14_AbsentJobStep ==
    \A d \in delJob' \ delJob : d.id \notin DOMAIN jobs => UNCHANGED estimates

\* C14: GET, PUT and DELETE on /api/jobs/:id and /api/estimates/:id with an
\* id that matches no stored row are answered 404 and leave the stored jobs
\* and estimates unchanged
C14_NotFound == [][C14_AbsentIdStep /\ C14_AbsentJobStep]_vars

\* numeric body value x is stored as v
StoredAsSent(x, v) ==
    IF x.t = "number" THEN v = x.n
    ELSE ~parseFloat(x.s).isNaN /\ v = parseFloat(x.s).v

\* C15: right after a create answered 201, the row stored under the returned
\* id has every input field equal to the value sent in the body
C15_RoundTrip ==
    /\ (last.op = "POST /api/jobs" /\ last.code = 201 /\ last.id \in DOMAIN jobs)
         => \A f \in (DOMAIN last.body) \cap JobFields : jobs[last.id][f] = last.body[f]
    /\ (last.op = "POST /api/estimates" /\ last.code = 201 /\ last.id \in DOMAIN estimates)
         => /\ \A f \in (DOMAIN last.body) \cap EstimateText :
                 estimates[last.id][f] = last.body[f]
            /\ \A f \in (DOMAIN last.body) \cap (EstimateRequired \ {"cubicYards"}) :
                 StoredAsSent(last.body[f], estimates[last.id][f])

\* C16: a POST /api/estimates for a stored job with positive dimensions and
\* without materialWeight, importUnitCost and estimatedHours is answered 201
\* (the backend up) and stores 145, 24.50 and 0 for them
C16_DefaultsWhenOmitted ==
    ( /\ last.op = "POST /api/estimates"
      /\ (DOMAIN last.body) \cap {"materialWeight", "importUnitCost", "estimatedHours"} = {}
      /\ Dimensions \subseteq DOMAIN last.body
      /\ \A f \in Dimensions : PositiveNumber(last.body[f])
      /\ last.body.jobId.n \in DOMAIN jobs
      /\ last.error # Unavailable )
      => /\ last.code = 201
         /\ last.id \in DOMAIN estimates
              => /\ estimates[last.id].materialWeight = DefaultMaterialWeight
                 /\ estimates[last.id].importUnitCost = DefaultImportUnitCost
                 /\ estimates[last.id].estimatedHours = DefaultEstimatedHours

\* C17, in every step: GET /api/estimates answered 200 returns the estimates
\* whose jobId is the number the jobId parameter reads as when the parameter
\* is given, and all estimates when it is absent
C17_FilterStep ==
    (Answered' > Answered /\ last'.op = "GET /api/estimates" /\ last'.code = 200)
      => last'.entity =
           IF last'.body.given
           THEN {estimates[e] : e \in {x \in DOMAIN estimates :
                    ~parseInt(last'.body.v).isNaN
                    /\ estimates[x].jobId = parseInt(last'.body.v).v}}
           ELSE {estimates[e] : e \in DOMAIN estimates}

\* C17: GET /api/estimates with a jobId parameter returns only the estimates
\* of that job, for every value of the parameter, and all estimates only
\* when the parameter is absent
C17_FilterByJobId == [][C17_FilterStep]_vars

\* C18, in every state: each row carries the id it is stored under, taken
\* from the table's sequence, and each estimate a createdAt read from the
\* server clock
C18_ServerAssigned ==
    /\ \A j \in DOMAIN jobs : jobs[j].id = j /\ j < nextJobId
    /\ \A e \in DOMAIN estimates :
         /\ estimates[e].id = e /\ e < nextEstimateId
         /\ estimates[e].createdAt \in 1..Now
    /\ \A a, b \in DOMAIN jobs : a # b => jobs[a].id # jobs[b].id
    /\ \A a, b \in DOMAIN estimates : a # b => estimates[a].id # estimates[b].id

\* C18, in every step: a row that stays stored keeps its id and createdAt
C18_ImmutableStep ==
    (jobs' # jobs \/ estimates' # estimates) =>
    /\ \A j \in (DOMAIN jobs) \cap (DOMAIN jobs') : jobs'[j].id = jobs[j].id
    /\ \A e \in (DOMAIN estimates) \cap (DOMAIN estimates') :
         /\ estimates'[e].id = estimates[e].id
         /\ estimates'[e].createdAt = estimates[e].createdAt

\* C18: ids and createdAt are assigned by the server at creation, ids are
\* pairwise distinct within each table, and no PUT changes the id or
\* createdAt of a stored row, whatever id or createdAt its body carries
C18_IdAndCreatedAt == []C18_ServerAssigned /\ [][C18_ImmutableStep]_vars

\* a PUT whose body carries id and createdAt was answered 200 and changed
\* the row's notes
C18_Witness ==
    /\ last.op = "PUT /api/estimates/:id"
    /\ last.code = 200
    /\ {"id", "createdAt"} \subseteq DOMAIN last.body
    /\ last.id \in DOMAIN estimates
    /\ estimates[last.id].notes = last.body.notes

Inserted(tbl, after) == (DOMAIN after) \ (DOMAIN tbl)
Removed(tbl, after) == (DOMAIN tbl) \ (DOMAIN after)
Changed(tbl, after) == {i \in (DOMAIN tbl) \cap (DOMAIN after) : tbl[i] # after[i]}

\* C19, in every step that answers a request: a row is inserted exactly when
\* a POST is answered 201, with the inserted row (its id; for an estimate its
\* computed cubicYards) as entity; a row changes only when a PUT is answered
\* 200, and a PUT answered 200 carries the row as stored after it; a row is
\* removed exactly when a DELETE is answered 204, with no entity
C19_AnswerStep ==
    (Answered' > Answered
       /\ (jobs' # jobs \/ estimates' # estimates \/ last'.code \in {200, 201, 204})) =>
      LET r == last' IN
      /\ (Inserted(jobs, jobs') # {} \/ (r.op = "POST /api/jobs" /\ r.code = 201))
           => /\ r.op = "POST /api/jobs" /\ r.code = 201
              /\ Inserted(jobs, jobs') = {r.id}
              /\ r.entity = {jobs'[r.id]}
              /\ jobs'[r.id].id = r.id
      /\ (Inserted(estimates, estimates') # {}
            \/ (r.op = "POST /api/estimates" /\ r.code = 201))
           => /\ r.op = "POST /api/estimates" /\ r.code = 201
              /\ Inserted(estimates, estimates') = {r.id}
              /\ r.entity = {estimates'[r.id]}
              /\ estimates'[r.id].id = r.id
              /\ CubicYardsOf(estimates'[r.id])
      /\ (Changed(jobs, jobs') # {} \/ (r.op = "PUT /api/jobs/:id" /\ r.code = 200))
           => /\ r.op = "PUT /api/jobs/:id" /\ r.code = 200
              /\ Changed(jobs, jobs') \subseteq {r.id}
              /\ r.id \in DOMAIN jobs'
              /\ r.entity = {jobs'[r.id]}
      /\ (Changed(estimates, estimates') # {}
            \/ (r.op = "PUT /api/estimates/:id" /\ r.code = 200))
           => /\ r.op = "PUT /api/estimates/:id" /\ r.code = 200
              /\ Changed(estimates, estimates') \subseteq {r.id}
              /\ r.id \in DOMAIN estimates'
              /\ r.entity = {estimates'[r.id]}
      /\ (Removed(jobs, jobs') # {} \/ (r.op = "DELETE /api/jobs/:id" /\ r.code = 204))
           => /\ r.op = "DELETE /api/jobs/:id" /\ r.code = 204
              /\ Removed(jobs, jobs') = {r.id}
              /\ r.entity = {}
      /\ (Removed(estimates, estimates') # {}
            \/ (r.op = "DELETE /api/estimates/:id" /\ r.code = 204))
           => /\ r.op = "DELETE /api/estimates/:id" /\ r.code = 204
              /\ Removed(estimates, estimates') = {r.id}
              /\ r.entity = {}

\* C19: a successful create is answered 201 with the created entity, a
\* successful update 200 with the entity as stored after it, a successful
\* delete 204, and no successful mutation with another code
C19_SuccessCodes == [][C19_AnswerStep]_vars

\* a POST /api/estimates was answered 201 with the stored row, whose
\* cubicYards is the computed value and not the one the body carried
C19_Witness ==
    /\ last.op = "POST /api/estimates"
    /\ last.code = 201
    /\ last.id \in DOMAIN estimates
    /\ last.entity = {estimates[last.id]}
    /\ estimates[last.id].cubicYards = 100
    /\ last.body.cubicYards = Num(999)

\* C20: a job created by a POST /api/jobs whose body has no status is stored
\* with status "pending"
C20_StatusDefaultsToPending ==
    (last.op = "POST /api/jobs" /\ last.code = 201 /\ ~Has(last.body, "status")
       /\ last.id \in DOMAIN jobs)
      => jobs[last.id].status = "pending"

\* a POST /api/jobs without status was answered 201 and the job is pending
C20_Witness ==
    /\ last.op = "POST /api/jobs"
    /\ last.code = 201
    /\ ~Has(last.body, "status")
    /\ last.id \in DOMAIN jobs
    /\ jobs[last.id].status = "pending"


\* ---- validation before the repository ----
\* a request with an invalid body is answered in the step that accepts it,
\* with 400 whatever the backend would have said, and no handler state, row
\* or id counter moves
C24_InvalidStep ==
    (Answered' > Answered /\ FailsValidation(last')) =>
        /\ last'.code = 400
        /\ issued' = issued + 1
        /\ UNCHANGED <<jobs, estimates, nextJobId, nextEstimateId, putEst, delJob, gone>>

\* a PUT with an invalid body is never answered 404 or 500
C24_InvalidPutNot404 ==
    (last.op \in {"PUT /api/jobs/:id", "PUT /api/estimates/:id"} /\ FailsValidation(last))
        => last.code \notin {404, 500}

\* C24: every mutating handler validates the body before its first
\* repository call: an invalid body causes no storage read or write, and a PUT
\* with an invalid body addressed to an id that does not exist is answered
\* 400, not 404.
C24_ValidationBeforeRepository == []C24_InvalidPutNot404 /\ [][C24_InvalidStep]_vars

\* a PUT with an invalid body for an estimate id never assigned was answered 400
C24_Witness ==
    /\ last.op = "PUT /api/estimates/:id"
    /\ FailsValidation(last)
    /\ last.id >= nextEstimateId
    /\ last.code = 400

\* ---- frame of an update ----
\* table after differs from table before at most in row id, and there at most
\* in the columns named
OnlyColumnsChanged(before, after, id, columns) ==
    /\ DOMAIN after = DOMAIN before
    /\ \A r \in DOMAIN before :
         IF r = id
         THEN \A c \in (DOMAIN before[r]) \ columns : after[r][c] = before[r][c]
         ELSE after[r] = before[r]

\* the columns a PUT /api/estimates/:id with this body may change
EstimateColumnsOf(body) ==
    (DOMAIN body) \cup (IF (DOMAIN body) \cap Dimensions # {} THEN {"cubicYards"} ELSE {})

C25_FrameStep ==
    Answered' > Answered =>
        /\ last'.op = "PUT /api/jobs/:id" =>
              /\ OnlyColumnsChanged(jobs, jobs', last'.id, DOMAIN last'.body)
              /\ estimates' = estimates
        /\ last'.op = "PUT /api/estimates/:id" =>
              /\ OnlyColumnsChanged(estimates, estimates', last'.id,
                                    EstimateColumnsOf(last'.body))
              /\ jobs' = jobs

\* C25: a PUT /api/jobs/:id or PUT /api/estimates/:id served with no other
\* request in flight changes only the addressed row and, within it, only the
\* fields present in the body (and cubicYards when the body has a dimension);
\* absent fields, other jobs and other estimates keep their values.
C25_UpdateFrame == [][C25_FrameStep]_vars

\* a PUT of one dimension changed that dimension and cubicYards of one of two
\* stored estimates
C25_Witness ==
    /\ last.op = "PUT /api/estimates/:id"
    /\ last.code = 200
    /\ DOMAIN last.body = {"pipeLength"}
    /\ Cardinality(DOMAIN estimates) = 2
    /\ last.id \in DOMAIN estimates
    /\ estimates[last.id].pipeLength = 6
    /\ estimates[last.id].cubicYards = 200

\* the write of a PUT /api/estimates/:id whose body has neither materialWeight
\* nor a dimension leaves the row's materialWeight and cubicYards as they are
C26_WriteStep ==
    \A p \in putEst \ putEst' :
        ( /\ (DOMAIN p.body) \cap (Dimensions \cup {"materialWeight"}) = {}
          /\ p.id \in DOMAIN estimates
          /\ p.id \in DOMAIN estimates' ) =>
            /\ estimates'[p.id].materialWeight = estimates[p.id].materialWeight
            /\ estimates'[p.id].cubicYards = estimates[p.id].cubicYards

\* C26: a PUT /api/estimates/:id with neither materialWeight nor a dimension
\* in its body never changes the stored materialWeight or cubicYards, also
\* when interleaved with another PUT on the estimate that sets them: what
\* the other PUT wrote stays.
C26_NoStaleWriteBack == [][C26_WriteStep]_vars

\* ---- the estimate form and the server ----
\* C27: for every input the estimate form accepts and the server accepts too,
\* the cubicYards of the form's live preview and the cubicYards the client
\* sends are the cubicYards the server stores (and returns) for the submission.
C27_PreviewSentStored ==
    ( /\ last.op \in {"POST /api/estimates", "PUT /api/estimates/:id"}
      /\ Ok(last)
      /\ putEst = {} ) =>
        /\ last.body = form.sent
        /\ form.sent.cubicYards = Num(form.preview)
        /\ \A row \in last.entity : row.cubicYards = form.preview
        /\ last.id \in DOMAIN estimates => estimates[last.id].cubicYards = form.preview

\* 100 x 2 x 3 feet typed into the form of a new estimate were previewed,
\* sent and stored as 22.22 cubic yards
C27_Witness ==
    /\ last.op = "POST /api/estimates"
    /\ last.code = 201
    /\ form.values.pipeLength = <<"1", "0", "0">>
    /\ form.preview = 2222
    /\ form.sent.cubicYards = Num(2222)
    /\ last.id \in DOMAIN estimates
    /\ estimates[last.id].cubicYards = 2222

\* ---- cache invalidation ----
\* the list a query key stands for, as the server would return it
ServerList(k, jobTable, estimateTable) ==
    IF k.path = "/api/jobs" THEN {jobTable[j] : j \in DOMAIN jobTable}
    ELSE IF k.jobId = 0 THEN {estimateTable[e] : e \in DOMAIN estimateTable}
    ELSE {estimateTable[e] : e \in EstimatesOfJob(k.jobId, estimateTable)}

MutatingOps ==
    { "POST /api/jobs", "PUT /api/jobs/:id", "DELETE /api/jobs/:id",
      "POST /api/estimates", "PUT /api/estimates/:id", "DELETE /api/estimates/:id" }

\* the mutation answered in this step changed the server's content of list k:
\* in this step, or, for a job's DELETE, when its estimates were deleted
ContentChanged(k) ==
    \/ ServerList(k, jobs', estimates') # ServerList(k, jobs, estimates)
    \/ /\ last'.op = "DELETE /api/jobs/:id"
       /\ k.path = "/api/estimates"
       /\ k.jobId \in {0, last'.id}
       /\ gone'[last'.id] # {}

C28_SettleStep ==
    (Answered' > Answered /\ last'.op \in MutatingOps /\ Ok(last')) =>
        \A k \in DOMAIN cache' : ContentChanged(k) => cache'[k].stale

\* C28: when a mutation of the client succeeds, every cached list whose
\* content on the server it changed is invalidated; the delete of a job
\* invalidates the estimates list as well as the jobs list.
C28_ChangedListsInvalidated == [][C28_SettleStep]_vars

\* ---- the estimate dialog and the tabs ----
\* C29: a dialog opened by the "Add New Estimate" button or by a job card's
\* "Add Estimate" is in create mode (estimateToEdit is null), whatever was
\* edited, completed or dismissed before, and its submission is a POST,
\* never a PUT to an estimate edited earlier.
C29_CreateMode ==
    page.openedBy \in {"Add New Estimate", "initialOpenModal"} =>
        /\ page.isAddEstimateOpen => page.estimateToEdit = 0
        /\ page.event.name = "submit" => page.request.method = "POST"

\* C30: once an event is handled, Header highlights the tab Home renders;
\* after a job card's "Add Estimate" both are "estimates", the dialog is open
\* and the job is preselected.
C30_TabsAgree ==
    /\ page.header = page.activeTab
    /\ page.mounted <=> (page.loaded /\ page.activeTab = "estimates")
    /\ page.event.name = "addEstimate" =>
          /\ page.header = "estimates"
          /\ page.activeTab = "estimates"
          /\ page.mounted
          /\ page.isAddEstimateOpen
          /\ page.estimateToEdit = 0
          /\ page.selectedJobId = page.event.arg

\* "Add Estimate" of job card 2 opened the estimates tab with the dialog for job 2
C30_Witness ==
    /\ page.event = Event("addEstimate", 2)
    /\ page.header = "estimates"
    /\ page.activeTab = "estimates"
    /\ page.isAddEstimateOpen
    /\ page.selectedJobId = 2

\* ---- calculators ----
\* C21: for positive whole L, W and D, calculateCubicYards(L, W, D) is L*W*D/27
\* rounded to the nearest hundredth: no other number of hundredths is closer,
\* and 100 x 2 x 3 feet give 22.22 cubic yards.
C21_NearestHundredth ==
    calc.fn = "calculateCubicYards" =>
        /\ NearestHundredth(calc.out.cubicYards, calc.in[1], calc.in[2], calc.in[3])
        /\ calc.in = <<100, 2, 3>> => calc.out.cubicYards = 2222
C21_Witness ==
    /\ calc.fn = "calculateCubicYards"
    /\ calc.in = <<100, 2, 3>>
    /\ calc.out.cubicYards = 2222

\* C22: the volume calculator shows tonsPerCubicYard = m*27/2000,
\* totalTons = tonsPerCubicYard*y, importCost = c*totalTons and a haul-off
\* charge of 37.50*y; 145 lb/ft3 are 1.9575 tons per cubic yard and 22.22
\* cubic yards cost 833.25 to haul off.
C22_VolumeFigures ==
    calc.fn = "VolumeCalculator" =>
        LET y == calc.in[1]
            m == calc.in[2]
            c == calc.in[3]
            f == calc.out
        IN  /\ f.tonsPerCubicYard.num * 2000 = m * 27 * f.tonsPerCubicYard.den
            /\ f.totalTons = Times(f.tonsPerCubicYard, Ratio(y, 100))
            /\ f.importCost = Times(Ratio(c, 100), f.totalTons)
            /\ f.haulOffCharge.num * 10000 = y * 3750 * f.haulOffCharge.den
            /\ m = 145 => f.tonsPerCubicYard = Ratio(19575, 10000)
            /\ y = 2222 => f.haulOffCharge = Ratio(83325, 100)
C22_Witness ==
    /\ calc.fn = "VolumeCalculator"
    /\ calc.in = <<2222, 145, 2450>>
    /\ calc.out.tonsPerCubicYard = Ratio(19575, 10000)
    /\ calc.out.haulOffCharge = Ratio(83325, 100)

\* C23: the labor calculator's equipment total is h*250 + h*200 + h*200, its
\* crew total h*45 + h*40 and the combined total their sum, 735*h; 8 hours
\* give an equipment total of 5200.
C23_LaborFigures ==
    calc.fn = "LaborCalculator" =>
        LET h == calc.in[1]
            f == calc.out
        IN  /\ f.totalEquipmentCost = h * 250 + h * 200 + h * 200
            /\ f.totalCrewCost = h * 45 + h * 40
            /\ f.total = f.totalEquipmentCost + f.totalCrewCost
            /\ f.total = 735 * h
            /\ h = 8 => f.totalEquipmentCost = 5200
C23_Witness ==
    /\ calc.fn = "LaborCalculator"
    /\ calc.in = <<8>>
    /\ calc.out.totalEquipmentCost = 5200
    /\ calc.out.total = 5880

====
